---- MODULE Spec2Model ----
(***************************************************************************)
(* agent-bound: policy resolution -> permission checker -> audit log.      *)
(*                                                                         *)
(* State: the manifest and operator overrides handed to resolvePolicy, the *)
(* EffectivePermissions it produced (held by the PermissionChecker), the   *)
(* AuditLog's entries, the number of check calls made since the log was    *)
(* created or last cleared, and the last call made on the checker / log    *)
(* with its return value; the array a caller holds from an earlier all()   *)
(* or denied() (held), the checks invoked by the logical callers in the    *)
(* order they ran (trace), and the launch: the command given to            *)
(* createAgentBox / launchSandbox (launchCommand), the ambient environment *)
(* (processEnv), the spawn call made (spawned), the state of the child     *)
(* process (child), ChildProcess.killed (killed), the termination signals  *)
(* sent to it (signals) and what the call gave back (box).                 *)
(* validateManifest and createManifest are pure: their argument and result *)
(* are kept in the last call.                                              *)
(*                                                                         *)
(* Optional fields of TypeScript objects are modelled by record domains:   *)
(* a field is present iff its name is in the DOMAIN of the record.         *)
(* Strings that the code only compares for equality are TLA+ strings;      *)
(* path strings are additionally given character by character (Chars) so   *)
(* that path.resolve, path.relative and String.startsWith are computed.    *)
(***************************************************************************)
EXTENDS Integers, Sequences, FiniteSets, TLC

VARIABLES manifest, overrides, perms, entries, calls, last,
          held, trace, launchCommand, processEnv, child, killed, signals,
          spawned, box

vars == <<manifest, overrides, perms, entries, calls, last,
          held, trace, launchCommand, processEnv, child, killed, signals,
          spawned, box>>

\* ------------------------------------------------------------------------
\* Bounds
\* ------------------------------------------------------------------------

\* largest number of permissions a manifest declares
MaxPerms == 2

\* largest number of check calls between two clears of the log
MaxLog == 2

\* ------------------------------------------------------------------------
\* Permission vocabulary
\* ------------------------------------------------------------------------

FILESYSTEM_READ == "mcp.ac.filesystem.read"

FILESYSTEM_WRITE == "mcp.ac.filesystem.write"

FILESYSTEM_DELETE == "mcp.ac.filesystem.delete"

NETWORK_CLIENT == "mcp.ac.network.client"

NETWORK_SERVER == "mcp.ac.network.server"

SYSTEM_ENV_READ == "mcp.ac.system.env.read"

SYSTEM_EXEC == "mcp.ac.system.exec"

ALL_PERMISSIONS ==
  << FILESYSTEM_READ, FILESYSTEM_WRITE, FILESYSTEM_DELETE,
     NETWORK_CLIENT, NETWORK_SERVER, SYSTEM_ENV_READ, SYSTEM_EXEC >>

\* ------------------------------------------------------------------------
\* JavaScript helpers
\* ------------------------------------------------------------------------

\* the value of an optional string argument that was not passed
undefined == "undefined"

\* the object literal {}
EmptyObject == [x \in {} |-> x]

\* obj.field !== undefined
Has(obj, field) == field \in DOMAIN obj

\* Array.prototype.includes
includes(arr, x) == \E i \in 1..Len(arr) : arr[i] = x

\* new Set(array)
SetOf(arr) == { arr[i] : i \in 1..Len(arr) }

\* ------------------------------------------------------------------------
\* Path strings
\* ------------------------------------------------------------------------

\* process.cwd()
process_cwd == "/work"

\* the characters of the path strings used as roots and requests
Chars(s) ==
  IF s = "/data/../etc/passwd" THEN <<"/", "d", "a", "t", "a", "/", ".", ".", "/", "e", "t", "c", "/", "p", "a", "s", "s", "w", "d">> ELSE
  IF s = "/data/..cache" THEN <<"/", "d", "a", "t", "a", "/", ".", ".", "c", "a", "c", "h", "e">> ELSE
  IF s = "notes.txt" THEN <<"n", "o", "t", "e", "s", ".", "t", "x", "t">> ELSE
  IF s = "/data" THEN <<"/", "d", "a", "t", "a">> ELSE
  IF s = "/data/.env" THEN <<"/", "d", "a", "t", "a", "/", ".", "e", "n", "v">> ELSE
  IF s = "/etc" THEN <<"/", "e", "t", "c">> ELSE
  IF s = "/work" THEN <<"/", "w", "o", "r", "k">> ELSE
  IF s = "/" THEN <<"/">> ELSE
  IF s = "." THEN <<".">> ELSE
  <<>>

\* s.split("/")
RECURSIVE Split(_)
Split(s) ==
  IF s = <<>> THEN << <<>> >>
  ELSE LET rest == Split(Tail(s))
       IN  IF Head(s) = "/" THEN << <<>> >> \o rest
           ELSE << <<Head(s)>> \o Head(rest) >> \o Tail(rest)

\* segs.join("/")
RECURSIVE Join(_)
Join(segs) ==
  IF segs = <<>> THEN <<>>
  ELSE IF Len(segs) = 1 THEN segs[1]
  ELSE segs[1] \o <<"/">> \o Join(Tail(segs))

\* path.posix normalizeString: drop "" and ".", let ".." remove the segment
\* before it (nothing to remove at the root)
RECURSIVE normalizeString(_, _)
normalizeString(segs, acc) ==
  IF segs = <<>> THEN acc
  ELSE LET h == Head(segs)
       IN  normalizeString(Tail(segs),
             IF h = <<>> \/ h = <<".">> THEN acc
             ELSE IF h = <<".", ".">>
                  THEN (IF acc = <<>> THEN <<>> ELSE SubSeq(acc, 1, Len(acc) - 1))
                  ELSE Append(acc, h))

\* the segments of path.resolve(p): p itself when absolute, else cwd + p
resolveSegments(p) ==
  normalizeString(
    IF Len(p) > 0 /\ p[1] = "/" THEN Split(p)
    ELSE Split(Chars(process_cwd)) \o Split(p),
    <<>>)

\* path.resolve(p)
resolve(p) == <<"/">> \o Join(resolveSegments(p))

\* length of the longest common prefix of two segment lists
RECURSIVE commonLength(_, _)
commonLength(f, t) ==
  IF f = <<>> \/ t = <<>> THEN 0
  ELSE IF Head(f) = Head(t) THEN 1 + commonLength(Tail(f), Tail(t))
  ELSE 0

\* path.relative(from, to)
relative(from, to) ==
  LET f == resolveSegments(from)
      t == resolveSegments(to)
      c == commonLength(f, t)
  IN  Join([i \in 1..(Len(f) - c) |-> <<".", ".">>] \o SubSeq(t, c + 1, Len(t)))

\* String.prototype.startsWith
startsWith(s, prefix) ==
  /\ Len(s) >= Len(prefix)
  /\ SubSeq(s, 1, Len(prefix)) = prefix

\* ------------------------------------------------------------------------
\* Policy resolution
\* ------------------------------------------------------------------------

\* obj.field ?? dflt
Coalesce(obj, field, dflt) == IF Has(obj, field) THEN obj[field] ELSE dflt

\* resolveFilesystem with a slip: a supplied override list is installed
\* whether or not its permission is declared
resolveFilesystem_overrideGrants(ps, o) ==
  LET read == IF FILESYSTEM_READ \in ps \/ Has(o, "readPaths")
              THEN "read" :> Coalesce(o, "readPaths", <<process_cwd>>)
              ELSE EmptyObject
      write == IF FILESYSTEM_WRITE \in ps \/ Has(o, "writePaths")
               THEN "write" :> Coalesce(o, "writePaths", <<process_cwd>>)
               ELSE EmptyObject
      delete == IF FILESYSTEM_DELETE \in ps \/ Has(o, "deletePaths")
                THEN "delete" :> Coalesce(o, "deletePaths",
                                          Coalesce(write, "write", <<process_cwd>>))
                ELSE EmptyObject
  IN  read @@ write @@ delete

\* resolveFilesystem with a slip: an empty override list counts as not
\* supplied (|| instead of ??)
resolveFilesystem_emptyOverrideIgnored(ps, o) ==
  LET or(field, dflt) == IF Has(o, field) /\ o[field] # <<>> THEN o[field] ELSE dflt
      read == IF FILESYSTEM_READ \in ps
              THEN "read" :> or("readPaths", <<process_cwd>>)
              ELSE EmptyObject
      write == IF FILESYSTEM_WRITE \in ps
               THEN "write" :> or("writePaths", <<process_cwd>>)
               ELSE EmptyObject
      delete == IF FILESYSTEM_DELETE \in ps
                THEN "delete" :> Coalesce(o, "deletePaths",
                                          Coalesce(write, "write", <<process_cwd>>))
                ELSE EmptyObject
  IN  read @@ write @@ delete

\* resolveFilesystem with a slip: the delete default is taken from the
\* writePaths override instead of the resolved write list
resolveFilesystem_deleteFromWriteOverride(ps, o) ==
  LET read == IF FILESYSTEM_READ \in ps
              THEN "read" :> Coalesce(o, "readPaths", <<process_cwd>>)
              ELSE EmptyObject
      write == IF FILESYSTEM_WRITE \in ps
               THEN "write" :> Coalesce(o, "writePaths", <<process_cwd>>)
               ELSE EmptyObject
      delete == IF FILESYSTEM_DELETE \in ps
                THEN "delete" :> Coalesce(o, "deletePaths",
                                          Coalesce(o, "writePaths", <<process_cwd>>))
                ELSE EmptyObject
  IN  read @@ write @@ delete

\* the filesystem struct built by resolvePolicy
resolveFilesystem(ps, o) ==
  LET read == IF FILESYSTEM_READ \in ps
              THEN "read" :> Coalesce(o, "readPaths", <<process_cwd>>)
              ELSE EmptyObject
      write == IF FILESYSTEM_WRITE \in ps
               THEN "write" :> Coalesce(o, "writePaths", <<process_cwd>>)
               ELSE EmptyObject
      delete == IF FILESYSTEM_DELETE \in ps
                THEN "delete" :> Coalesce(o, "deletePaths",
                                          Coalesce(write, "write", <<process_cwd>>))
                ELSE EmptyObject
  IN  read @@ write @@ delete

\* resolveNetwork with a slip: the default host list is empty
resolveNetwork_hostsDefaultEmpty(ps, o) ==
  LET allowedHosts == IF NETWORK_CLIENT \in ps
                      THEN "allowedHosts" :> Coalesce(o, "allowedHosts", <<>>)
                      ELSE EmptyObject
      listenPorts == IF NETWORK_SERVER \in ps
                     THEN "listenPorts" :> Coalesce(o, "listenPorts", <<>>)
                     ELSE EmptyObject
  IN  allowedHosts @@ listenPorts

\* the network struct built by resolvePolicy
resolveNetwork(ps, o) ==
  LET allowedHosts == IF NETWORK_CLIENT \in ps
                      THEN "allowedHosts" :> Coalesce(o, "allowedHosts", <<"*">>)
                      ELSE EmptyObject
      listenPorts == IF NETWORK_SERVER \in ps
                     THEN "listenPorts" :> Coalesce(o, "listenPorts", <<>>)
                     ELSE EmptyObject
  IN  allowedHosts @@ listenPorts

\* the system struct built by resolvePolicy
resolveSystem(ps, o) ==
  LET envVars == IF SYSTEM_ENV_READ \in ps
                 THEN "envVars" :> Coalesce(o, "envVars", <<>>)
                 ELSE EmptyObject
      allowedCommands == IF SYSTEM_EXEC \in ps
                         THEN "allowedCommands" :> Coalesce(o, "allowedCommands", <<>>)
                         ELSE EmptyObject
  IN  envVars @@ allowedCommands

\* resolvePolicy with a slip: the three structs are created whatever is
\* declared
resolvePolicy_alwaysStructs(m, o) ==
  LET ps == SetOf(m.permissions)
  IN  ("filesystem" :> resolveFilesystem(ps, o))
      @@ ("network" :> resolveNetwork(ps, o))
      @@ ("system" :> resolveSystem(ps, o))

\* resolvePolicy(manifest, overrides)
resolvePolicy(m, o) ==
  LET ps == SetOf(m.permissions)
      filesystem ==
        IF FILESYSTEM_READ \in ps \/ FILESYSTEM_WRITE \in ps \/ FILESYSTEM_DELETE \in ps
        THEN "filesystem" :> resolveFilesystem(ps, o) ELSE EmptyObject
      network ==
        IF NETWORK_CLIENT \in ps \/ NETWORK_SERVER \in ps
        THEN "network" :> resolveNetwork(ps, o) ELSE EmptyObject
      system ==
        IF SYSTEM_ENV_READ \in ps \/ SYSTEM_EXEC \in ps
        THEN "system" :> resolveSystem(ps, o) ELSE EmptyObject
  IN  filesystem @@ network @@ system

\* ------------------------------------------------------------------------
\* Audit log
\* ------------------------------------------------------------------------

\* record with a slip: an entry equal to the newest one is not pushed again
record_dedup(log, now, permission, resource, decision, detail) ==
  LET e == [ timestamp  |-> now,
             permission |-> permission,
             resource   |-> resource,
             decision   |-> decision,
             detail     |-> detail ]
  IN  IF log # <<>> /\ log[Len(log)] = e THEN log ELSE Append(log, e)

\* record with a slip: the entry is put in front (unshift) instead of pushed
record_unshift(log, now, permission, resource, decision, detail) ==
  << [ timestamp  |-> now,
       permission |-> permission,
       resource   |-> resource,
       decision   |-> decision,
       detail     |-> detail ] >> \o log

\* record with a slip: an entry stamped with the same clock reading as the
\* newest one overwrites it
record_mergeSameTimestamp(log, now, permission, resource, decision, detail) ==
  LET e == [ timestamp  |-> now,
             permission |-> permission,
             resource   |-> resource,
             decision   |-> decision,
             detail     |-> detail ]
  IN  IF log # <<>> /\ log[Len(log)].timestamp = now
      THEN [log EXCEPT ![Len(log)] = e]
      ELSE Append(log, e)

\* AuditLog.record: push one entry stamped with the clock reading now
record(log, now, permission, resource, decision, detail) ==
  Append(log, [ timestamp  |-> now,
                permission |-> permission,
                resource   |-> resource,
                decision   |-> decision,
                detail     |-> detail ])

\* e.decision === "deny"
isDeny(e) == e.decision = "deny"

\* all with a slip: the log's own array is handed out
all_live(log) == [value |-> log, shared |-> TRUE]

\* AuditLog.all: [...this.entries], a new array with the same elements;
\* shared tells whether the returned array is the log's own array object
all(log) == [value |-> log, shared |-> FALSE]

\* denied with a slip: the test keeps the allow entries
denied_keepsAllow(log) ==
  [value |-> SelectSeq(log, LAMBDA e : ~isDeny(e)), shared |-> FALSE]

\* AuditLog.denied: this.entries.filter(...), a new array
denied(log) == [value |-> SelectSeq(log, isDeny), shared |-> FALSE]

\* clear with a slip: the denials survive the clear
clear_keepsDenied(log) == SelectSeq(log, isDeny)

\* AuditLog.clear: this.entries = [], the value of entries afterwards
clear(log) == <<>>

\* ------------------------------------------------------------------------
\* Permission checker
\* ------------------------------------------------------------------------

\* perms.category?.field is defined
HasList(p, category, field) == Has(p, category) /\ Has(p[category], field)

\* ok ? "allow" : "deny"
decisionOf(ok) == IF ok THEN "allow" ELSE "deny"

\* contains with a slip: the parent-traversal test on rel is missing
contains_noTraversalTest(allowed, abs) ==
  LET allowedAbs == resolve(Chars(allowed))
      rel == relative(allowedAbs, abs)
  IN  ~startsWith(rel, <<"/">>)

\* the callback of paths.some in checkFilesystem
contains(allowed, abs) ==
  LET allowedAbs == resolve(Chars(allowed))
      rel == relative(allowedAbs, abs)
  IN  ~startsWith(rel, <<".", ".">>) /\ ~startsWith(rel, <<"/">>)

\* the detail text `No filesystem.${action} permission`
noFilesystemDetail(action) ==
  IF action = "read" THEN "No filesystem.read permission"
  ELSE IF action = "write" THEN "No filesystem.write permission"
  ELSE "No filesystem.delete permission"

\* checkFilesystem with a slip: a missing list falls back to the resolver's
\* default [process.cwd()] instead of denying
checkFilesystem_absentDefaultsToCwd(p, log, now, action, filePath, permName) ==
  LET paths == IF HasList(p, "filesystem", action)
               THEN p.filesystem[action] ELSE <<process_cwd>>
      abs == resolve(Chars(filePath))
      ok == \E i \in 1..Len(paths) : contains(paths[i], abs)
  IN  [ ret |-> ok,
        log |-> record(log, now, permName, filePath, decisionOf(ok), undefined) ]

\* PermissionChecker.checkFilesystem: the return value and the log after it
checkFilesystem(p, log, now, action, filePath, permName) ==
  IF ~HasList(p, "filesystem", action)
  THEN [ ret |-> FALSE,
         log |-> record(log, now, permName, filePath, "deny", noFilesystemDetail(action)) ]
  ELSE LET paths == p.filesystem[action]
           abs == resolve(Chars(filePath))
           ok == \E i \in 1..Len(paths) : contains(paths[i], abs)
       IN  [ ret |-> ok,
             log |-> record(log, now, permName, filePath, decisionOf(ok), undefined) ]

\* checkNetworkClient with a slip: the wildcard entry is not honoured
checkNetworkClient_noWildcard(p, log, now, host) ==
  IF ~HasList(p, "network", "allowedHosts")
  THEN [ ret |-> FALSE,
         log |-> record(log, now, NETWORK_CLIENT, host, "deny", "No network.client permission") ]
  ELSE LET allowed == p.network.allowedHosts
           ok == includes(allowed, host)
       IN  [ ret |-> ok,
             log |-> record(log, now, NETWORK_CLIENT, host, decisionOf(ok), undefined) ]

\* PermissionChecker.checkNetworkClient
checkNetworkClient(p, log, now, host) ==
  IF ~HasList(p, "network", "allowedHosts")
  THEN [ ret |-> FALSE,
         log |-> record(log, now, NETWORK_CLIENT, host, "deny", "No network.client permission") ]
  ELSE LET allowed == p.network.allowedHosts
           ok == includes(allowed, "*") \/ includes(allowed, host)
       IN  [ ret |-> ok,
             log |-> record(log, now, NETWORK_CLIENT, host, decisionOf(ok), undefined) ]

\* checkNetworkServer with a slip: an empty list allows any port, as in
\* checkExec
checkNetworkServer_emptyAllowsAny(p, log, now, port) ==
  IF ~HasList(p, "network", "listenPorts")
  THEN [ ret |-> FALSE,
         log |-> record(log, now, NETWORK_SERVER, ToString(port), "deny", "No network.server permission") ]
  ELSE LET allowed == p.network.listenPorts
           ok == Len(allowed) = 0 \/ includes(allowed, port)
       IN  [ ret |-> ok,
             log |-> record(log, now, NETWORK_SERVER, ToString(port), decisionOf(ok), undefined) ]

\* PermissionChecker.checkNetworkServer
checkNetworkServer(p, log, now, port) ==
  IF ~HasList(p, "network", "listenPorts")
  THEN [ ret |-> FALSE,
         log |-> record(log, now, NETWORK_SERVER, ToString(port), "deny", "No network.server permission") ]
  ELSE LET allowed == p.network.listenPorts
           ok == includes(allowed, port)
       IN  [ ret |-> ok,
             log |-> record(log, now, NETWORK_SERVER, ToString(port), decisionOf(ok), undefined) ]

\* checkEnvRead with a slip: the decision recorded is always allow
checkEnvRead_logsAllow(p, log, now, name) ==
  IF ~HasList(p, "system", "envVars")
  THEN [ ret |-> FALSE,
         log |-> record(log, now, SYSTEM_ENV_READ, name, "allow", "No system.env.read permission") ]
  ELSE LET allowed == p.system.envVars
           ok == includes(allowed, name)
       IN  [ ret |-> ok,
             log |-> record(log, now, SYSTEM_ENV_READ, name, "allow", undefined) ]

\* checkEnvRead with a slip: the launcher's always-allowed names are granted
checkEnvRead_alwaysAllowed(p, log, now, name) ==
  IF ~HasList(p, "system", "envVars")
  THEN [ ret |-> FALSE,
         log |-> record(log, now, SYSTEM_ENV_READ, name, "deny", "No system.env.read permission") ]
  ELSE LET allowed == p.system.envVars
           ok == includes(allowed, name)
                 \/ name \in {"PATH", "HOME", "USER", "LANG", "TERM", "NODE_ENV"}
       IN  [ ret |-> ok,
             log |-> record(log, now, SYSTEM_ENV_READ, name, decisionOf(ok), undefined) ]

\* PermissionChecker.checkEnvRead
checkEnvRead(p, log, now, name) ==
  IF ~HasList(p, "system", "envVars")
  THEN [ ret |-> FALSE,
         log |-> record(log, now, SYSTEM_ENV_READ, name, "deny", "No system.env.read permission") ]
  ELSE LET allowed == p.system.envVars
           ok == includes(allowed, name)
       IN  [ ret |-> ok,
             log |-> record(log, now, SYSTEM_ENV_READ, name, decisionOf(ok), undefined) ]

\* checkExec with a slip: a command the newest entry of the log already
\* names is denied
checkExec_deniesRepeat(p, log, now, command) ==
  IF ~HasList(p, "system", "allowedCommands")
  THEN [ ret |-> FALSE,
         log |-> record(log, now, SYSTEM_EXEC, command, "deny", "No system.exec permission") ]
  ELSE LET allowed == p.system.allowedCommands
           repeated == /\ log # <<>>
                       /\ log[Len(log)].permission = SYSTEM_EXEC
                       /\ log[Len(log)].resource = command
           ok == (Len(allowed) = 0 \/ includes(allowed, command)) /\ ~repeated
       IN  [ ret |-> ok,
             log |-> record(log, now, SYSTEM_EXEC, command, decisionOf(ok), undefined) ]

\* checkExec with a slip: an empty list allows nothing
checkExec_emptyDenies(p, log, now, command) ==
  IF ~HasList(p, "system", "allowedCommands")
  THEN [ ret |-> FALSE,
         log |-> record(log, now, SYSTEM_EXEC, command, "deny", "No system.exec permission") ]
  ELSE LET allowed == p.system.allowedCommands
           ok == includes(allowed, command)
       IN  [ ret |-> ok,
             log |-> record(log, now, SYSTEM_EXEC, command, decisionOf(ok), undefined) ]

\* PermissionChecker.checkExec
checkExec(p, log, now, command) ==
  IF ~HasList(p, "system", "allowedCommands")
  THEN [ ret |-> FALSE,
         log |-> record(log, now, SYSTEM_EXEC, command, "deny", "No system.exec permission") ]
  ELSE LET allowed == p.system.allowedCommands
           ok == Len(allowed) = 0 \/ includes(allowed, command)
       IN  [ ret |-> ok,
             log |-> record(log, now, SYSTEM_EXEC, command, decisionOf(ok), undefined) ]

\* ------------------------------------------------------------------------
\* Manifest
\* ------------------------------------------------------------------------

\* A JavaScript value is [t |-> typeof-like tag, v |-> content]: a
\* description string holds its characters, a permission string its text,
\* an array its elements. The value handed to validateManifest is
\* [t |-> tag, fields |-> own properties].

\* isValidPermission(value)
isValidPermission(value) == includes(ALL_PERMISSIONS, value)

\* the characters String.prototype.trim removes
Whitespace == { " ", "\t", "\n" }

RECURSIVE trimStart(_)
trimStart(chars) ==
  IF chars # <<>> /\ Head(chars) \in Whitespace THEN trimStart(Tail(chars))
  ELSE chars

RECURSIVE trimEnd(_)
trimEnd(chars) ==
  IF chars # <<>> /\ chars[Len(chars)] \in Whitespace
  THEN trimEnd(SubSeq(chars, 1, Len(chars) - 1))
  ELSE chars

\* String.prototype.trim
trim(chars) == trimEnd(trimStart(chars))

\* one ValidationError; index is the position in permissions, -1 if none
ValidationError(path, index, message) ==
  [ path |-> path, index |-> index, message |-> message ]

\* the loop of validateManifest over obj.permissions from position i
\* (1-based here, i - 1 in the error path), with the permissions seen
RECURSIVE permissionErrors(_, _, _)
permissionErrors(permissions, i, seen) ==
  IF i > Len(permissions) THEN <<>>
  ELSE LET perm == permissions[i]
       IN  IF perm.t # "string"
           THEN <<ValidationError("$.permissions", i - 1,
                                  "Each permission must be a string")>>
                \o permissionErrors(permissions, i + 1, seen)
           ELSE IF ~isValidPermission(perm.v)
           THEN <<ValidationError("$.permissions", i - 1, "Unknown permission")>>
                \o permissionErrors(permissions, i + 1, seen)
           ELSE IF perm.v \in seen
           THEN <<ValidationError("$.permissions", i - 1, "Duplicate permission")>>
                \o permissionErrors(permissions, i + 1, seen)
           ELSE permissionErrors(permissions, i + 1, seen \cup { perm.v })

\* validateManifest with a slip: the description is not trimmed
validateManifest_untrimmed(data) ==
  IF data.t # "object"
  THEN [ valid  |-> FALSE,
         errors |-> <<ValidationError("$", -1, "Manifest must be a JSON object")>> ]
  ELSE LET obj == data.fields
           description ==
             IF ~Has(obj, "description") \/ obj.description.t # "string"
             THEN <<ValidationError("$.description", -1, "Must be a non-empty string")>>
             ELSE IF Len(obj.description.v) = 0
             THEN <<ValidationError("$.description", -1, "Must be a non-empty string")>>
             ELSE <<>>
           permissions ==
             IF ~Has(obj, "permissions") \/ obj.permissions.t # "array"
             THEN <<ValidationError("$.permissions", -1,
                                    "Must be an array of permission strings")>>
             ELSE permissionErrors(obj.permissions.v, 1, {})
           errors == description \o permissions
       IN  [ valid |-> Len(errors) = 0, errors |-> errors ]

\* validateManifest(data)
validateManifest(data) ==
  IF data.t # "object"
  THEN [ valid  |-> FALSE,
         errors |-> <<ValidationError("$", -1, "Manifest must be a JSON object")>> ]
  ELSE LET obj == data.fields
           description ==
             IF ~Has(obj, "description") \/ obj.description.t # "string"
             THEN <<ValidationError("$.description", -1, "Must be a non-empty string")>>
             ELSE IF Len(trim(obj.description.v)) = 0
             THEN <<ValidationError("$.description", -1, "Must be a non-empty string")>>
             ELSE <<>>
           permissions ==
             IF ~Has(obj, "permissions") \/ obj.permissions.t # "array"
             THEN <<ValidationError("$.permissions", -1,
                                    "Must be an array of permission strings")>>
             ELSE permissionErrors(obj.permissions.v, 1, {})
           errors == description \o permissions
       IN  [ valid |-> Len(errors) = 0, errors |-> errors ]

\* [...new Set(permissions)]: the elements in the order of their first
\* occurrence
RECURSIVE uniq(_, _)
uniq(arr, seen) ==
  IF arr = <<>> THEN <<>>
  ELSE IF Head(arr) \in seen THEN uniq(Tail(arr), seen)
  ELSE <<Head(arr)>> \o uniq(Tail(arr), seen \cup { Head(arr) })

\* the object createManifest builds from a description and a list
manifestObject(description, permissions) ==
  [ t      |-> "object",
    fields |-> [ description |-> [ t |-> "string", v |-> description ],
                 permissions |->
                   [ t |-> "array",
                     v |-> [ i \in 1..Len(permissions) |->
                               [ t |-> "string", v |-> permissions[i] ] ] ] ] ]

\* createManifest with a slip: the permissions are copied as given
createManifest_keepsDuplicates(description, permissions) ==
  LET manifestBuilt == manifestObject(description, permissions)
      result == validateManifest(manifestBuilt)
  IN  IF ~result.valid
      THEN [ threw |-> TRUE, error |-> result.errors ]
      ELSE [ threw |-> FALSE, manifest |-> manifestBuilt ]

\* createManifest(description, permissions): throws, or returns the manifest
createManifest(description, permissions) ==
  LET manifestBuilt == manifestObject(description, uniq(permissions, {}))
      result == validateManifest(manifestBuilt)
  IN  IF ~result.valid
      THEN [ threw |-> TRUE, error |-> result.errors ]
      ELSE [ threw |-> FALSE, manifest |-> manifestBuilt ]

\* ------------------------------------------------------------------------
\* Sandbox launcher
\* ------------------------------------------------------------------------

ALWAYS_ALLOWED == { "PATH", "HOME", "USER", "LANG", "TERM", "NODE_ENV" }

\* the search path given to a child that may not execute commands
RestrictedPath == "/usr/local/bin:/usr/bin:/bin"

\* buildEnvironment with a slip: every ambient variable is copied
buildEnvironment_copiesAmbient(permissions, env0) ==
  LET env == env0
  IN  IF ~HasList(permissions, "system", "allowedCommands")
      THEN ("PATH" :> RestrictedPath) @@ env
      ELSE env

\* buildEnvironment with a slip: an empty allowedCommands list restricts
\* the search path like an absent one
buildEnvironment_restrictsWhenEmpty(permissions, env0) ==
  LET allowed == ALWAYS_ALLOWED \cup
                   SetOf(IF HasList(permissions, "system", "envVars")
                         THEN permissions.system.envVars ELSE <<>>)
      env == [key \in allowed \cap DOMAIN env0 |-> env0[key]]
  IN  IF \/ ~HasList(permissions, "system", "allowedCommands")
         \/ permissions.system.allowedCommands = <<>>
      THEN ("PATH" :> RestrictedPath) @@ env
      ELSE env

\* buildEnvironment(permissions), reading the ambient environment env0
\* (process.env: a variable is set iff its name is in DOMAIN env0)
buildEnvironment(permissions, env0) ==
  LET allowed == ALWAYS_ALLOWED \cup
                   SetOf(IF HasList(permissions, "system", "envVars")
                         THEN permissions.system.envVars ELSE <<>>)
      env == [key \in allowed \cap DOMAIN env0 |-> env0[key]]
  IN  IF ~HasList(permissions, "system", "allowedCommands")
      THEN ("PATH" :> RestrictedPath) @@ env
      ELSE env

\* what the host does with a spawn call: it starts the process; it cannot
\* start it and says so by an 'error' event on the returned ChildProcess in
\* a later tick (a missing executable, ENOENT or EACCES); or the call
\* itself throws (any other errno)
SpawnOutcomes == { "started", "error_event", "throws" }

\* the error a spawn call throws
SpawnError == "spawn"

\* child_process.spawn(cmd, args, {cwd, env, stdio}): it throws, or returns
\* a ChildProcess; outcome is what the host does with the call
spawn(cmd, args, opts, outcome) ==
  IF outcome = "throws"
  THEN [ threw |-> TRUE, error |-> SpawnError ]
  ELSE [ threw |-> FALSE,
         state |-> IF outcome = "started" THEN "running" ELSE "spawn_failed",
         cmd   |-> cmd,
         args  |-> args,
         cwd   |-> opts.cwd,
         env   |-> opts.env,
         stdio |-> opts.stdio ]

\* the error thrown by launchSandbox for an empty command
EmptyCommandError == "command must contain at least one element"

\* launchSandbox with a slip: the permissions of the handle are the given
\* ones widened by the search path variable
launchSandbox_widensPermissions(options, env0, outcome) ==
  LET command == options.command
      cmd == IF command = <<>> THEN undefined ELSE Head(command)
      args == IF command = <<>> THEN <<>> ELSE Tail(command)
      env == buildEnvironment(options.permissions, env0)
      resolvedCwd == IF Has(options, "cwd") /\ options.cwd # ""
                     THEN resolve(Chars(options.cwd)) ELSE Chars(process_cwd)
      childProcess == spawn(cmd, args,
                            [ cwd   |-> resolvedCwd,
                              env   |-> env,
                              stdio |-> Coalesce(options, "stdio", "pipe") ],
                            outcome)
  IN  IF Len(command) = 0
      THEN [ threw |-> TRUE, error |-> EmptyCommandError ]
      ELSE IF childProcess.threw
      THEN childProcess
      ELSE [ threw       |-> FALSE,
             process     |-> childProcess,
             permissions |-> ("system" :> [ envVars |-> <<"PATH">> ])
                               @@ options.permissions ]

\* launchSandbox with a slip: the length of command is not tested
launchSandbox_noEmptyCheck(options, env0, outcome) ==
  LET command == options.command
      cmd == IF command = <<>> THEN undefined ELSE Head(command)
      args == IF command = <<>> THEN <<>> ELSE Tail(command)
      env == buildEnvironment(options.permissions, env0)
      resolvedCwd == IF Has(options, "cwd") /\ options.cwd # ""
                     THEN resolve(Chars(options.cwd)) ELSE Chars(process_cwd)
      childProcess == spawn(cmd, args,
                            [ cwd   |-> resolvedCwd,
                              env   |-> env,
                              stdio |-> Coalesce(options, "stdio", "pipe") ],
                            outcome)
  IN  IF childProcess.threw
      THEN childProcess
      ELSE [ threw       |-> FALSE,
             process     |-> childProcess,
             permissions |-> options.permissions ]

\* launchSandbox(options): either throws or returns a SandboxedProcess
launchSandbox(options, env0, outcome) ==
  LET command == options.command
      cmd == IF command = <<>> THEN undefined ELSE Head(command)
      args == IF command = <<>> THEN <<>> ELSE Tail(command)
      env == buildEnvironment(options.permissions, env0)
      resolvedCwd == IF Has(options, "cwd") /\ options.cwd # ""
                     THEN resolve(Chars(options.cwd)) ELSE Chars(process_cwd)
      childProcess == spawn(cmd, args,
                            [ cwd   |-> resolvedCwd,
                              env   |-> env,
                              stdio |-> Coalesce(options, "stdio", "pipe") ],
                            outcome)
  IN  IF Len(command) = 0
      THEN [ threw |-> TRUE, error |-> EmptyCommandError ]
      ELSE IF childProcess.threw
      THEN childProcess
      ELSE [ threw       |-> FALSE,
             process     |-> childProcess,
             permissions |-> options.permissions ]

\* createAgentBox(options): resolvePolicy, new AuditLog, new
\* PermissionChecker, launchSandbox; an error of launchSandbox propagates
createAgentBox(options, env0, outcome) ==
  LET effectivePermissions == resolvePolicy(options.manifest, options.overrides)
      audit == <<>>
      checker == [ perms |-> effectivePermissions, audit |-> audit ]
      cwd == IF Has(options, "cwd") THEN "cwd" :> options.cwd ELSE EmptyObject
      sandbox == launchSandbox([ command     |-> options.command,
                                 permissions |-> effectivePermissions ] @@ cwd,
                               env0, outcome)
  IN  IF sandbox.threw
      THEN sandbox
      ELSE [ threw                |-> FALSE,
             sandbox              |-> sandbox,
             checker              |-> checker,
             effectivePermissions |-> effectivePermissions,
             audit                |-> audit ]

\* ChildProcess.kill("SIGTERM") on p = [state, killed, signals]: while the
\* process runs the signal is sent and killed becomes true; once it is
\* gone nothing is sent and kill returns false; threw tells whether the
\* call raised
kill(p) ==
  IF p.state = "running"
  THEN [ state |-> p.state, killed |-> TRUE, signals |-> p.signals + 1,
         threw |-> FALSE ]
  ELSE [ state |-> p.state, killed |-> p.killed, signals |-> p.signals,
         threw |-> FALSE ]

\* SandboxedProcess.stop with a slip: child.killed is not tested
stop_noKilledTest(p) == kill(p)

\* SandboxedProcess.stop: if (!child.killed) child.kill("SIGTERM")
stop(p) ==
  IF ~p.killed
  THEN kill(p)
  ELSE [ state |-> p.state, killed |-> p.killed, signals |-> p.signals,
         threw |-> FALSE ]

\* AgentBoxInstance.stop with a slip: the audit log is cleared as well
boxStop_clearsAudit(b) ==
  [ sandbox |-> stop(b.sandbox), audit |-> clear(b.audit) ]

\* AgentBoxInstance.stop on b = [sandbox, audit]: sandbox.stop()
boxStop(b) ==
  [ sandbox |-> stop(b.sandbox), audit |-> b.audit ]

\* AuditLog.toJSON: JSON.stringify(this.entries, null, 2), which leaves
\* out the properties whose value is undefined
toJSON(log) ==
  [ i \in 1..Len(log) |->
      [ f \in { g \in DOMAIN log[i] : log[i][g] # undefined } |-> log[i][f] ] ]

\* ------------------------------------------------------------------------
\* Inputs
\* ------------------------------------------------------------------------

\* manifests: at most MaxPerms distinct permissions, in vocabulary order
Manifests ==
  { [ description |-> "server",
      permissions |-> SelectSeq(ALL_PERMISSIONS, LAMBDA q : q \in S) ] :
    S \in { T \in SUBSET SetOf(ALL_PERMISSIONS) : Cardinality(T) <= MaxPerms } }

\* operator overrides: none, every field scoped, every field the empty
\* list, and a partial scoping
OverrideChoices ==
  { EmptyObject,
    [ readPaths       |-> <<"/data">>,
      writePaths      |-> <<"/data/..cache", "/etc">>,
      deletePaths     |-> <<"/data/.env", ".">>,
      allowedHosts    |-> <<"api.example.com">>,
      listenPorts     |-> <<3000, 8080>>,
      envVars         |-> <<"API_KEY">>,
      allowedCommands |-> <<"node", "npx">> ],
    [ readPaths       |-> <<>>,
      writePaths      |-> <<>>,
      deletePaths     |-> <<>>,
      allowedHosts    |-> <<>>,
      listenPorts     |-> <<>>,
      envVars         |-> <<>>,
      allowedCommands |-> <<>> ],
    [ writePaths      |-> <<"/">>,
      allowedHosts    |-> <<"cdn.example.com", "*">>,
      envVars         |-> <<"PATH", "API_KEY">> ] }

\* requested paths: a traversal out of /data, a name beginning with two
\* dots, a path relative to the working directory, a root itself, a name
\* beginning with one dot
RequestPaths ==
  { "/data/../etc/passwd", "/data/..cache", "notes.txt", "/data", "/data/.env" }

RequestHosts == { "api.example.com", "API.example.com" }

RequestPorts == { 3000, 22 }

RequestNames == { "API_KEY", "PATH" }

RequestCommands == { "node", "rm" }

\* new Date().toISOString(): the wall-clock readings a call can see; the
\* text is stored in the entry and read by no operation
Timestamps == { "2026-11-05T11:00:00.000Z" }

\* the commands handed to createAgentBox / launchSandbox
Commands == { <<>>, <<"node", "server.js">>, <<"mcp-server">> }

\* the cwd option: not given, or a directory
CwdOptions == { EmptyObject, [cwd |-> "/data"] }

\* the ambient environment of the launching process
HostEnv ==
  [ PATH                  |-> "/opt/tools/bin:/usr/bin",
    HOME                  |-> "/home/operator",
    API_KEY               |-> "k-1",
    AWS_SECRET_ACCESS_KEY |-> "s-1" ]

\* ambient environments: HostEnv, one that differs from it only in
\* variables outside the safe set, and one with no PATH
AmbientEnvs ==
  { HostEnv,
    [ PATH                  |-> "/opt/tools/bin:/usr/bin",
      HOME                  |-> "/home/operator",
      API_KEY               |-> "k-1",
      AWS_SECRET_ACCESS_KEY |-> "s-2",
      EDITOR                |-> "vi" ],
    [ HOME                  |-> "/home/operator",
      AWS_SECRET_ACCESS_KEY |-> "s-1" ] }

\* ------------------------------------------------------------------------
\* State machine
\* ------------------------------------------------------------------------

\* no array obtained from all() or denied() yet
NoSnapshot == [from |-> "none", value |-> <<>>, shared |-> FALSE, mutated |-> FALSE]

\* the held array after the log's array became newLog by a push: it
\* changes with it only if it is the same array object
heldAfterPush(newLog) ==
  IF held.shared THEN [held EXCEPT !.value = newLog] ELSE held

\* the spawn call behind a ChildProcess: what the OS was asked to start
spawnCall(process) ==
  [x \in DOMAIN process \ {"state", "threw"} |-> process[x]]

\* createAgentBox called with the manifest, overrides and command of the
\* state, without a cwd option
Created(outcome) ==
  createAgentBox([ manifest  |-> manifest,
                   overrides |-> overrides,
                   command   |-> launchCommand ],
                 processEnv, outcome)

\* createAgentBox returned an instance: resolvePolicy, new AuditLog(),
\* new PermissionChecker(effective, audit), launchSandbox
Init ==
  /\ manifest \in Manifests
  /\ overrides \in OverrideChoices
  /\ perms = resolvePolicy(manifest, overrides)
  /\ entries = <<>>
  /\ calls = 0
  /\ last = [op |-> "new"]
  /\ held = NoSnapshot
  /\ trace = <<>>
  /\ launchCommand = <<"node", "server.js">>
  /\ processEnv = HostEnv
  /\ child = "running"
  /\ killed = FALSE
  /\ signals = 0
  /\ spawned = spawnCall(Created("started").sandbox.process)
  /\ box = "instance"

\* one call of a check method with result r
Called(op, arg, r) ==
  /\ box = "instance"
  /\ entries' = r.log
  /\ calls' = calls + 1
  /\ last' = [op |-> op, arg |-> arg, ret |-> r.ret]
  /\ held' = heldAfterPush(r.log)
  /\ UNCHANGED <<manifest, overrides, perms, trace, launchCommand,
               processEnv, child, killed, signals, spawned, box>>

CheckFileRead ==
  \E filePath \in RequestPaths, now \in Timestamps :
    /\ calls < MaxLog
    /\ Called("checkFileRead", filePath,
              checkFilesystem(perms, entries, now, "read", filePath, FILESYSTEM_READ))

CheckFileWrite ==
  \E filePath \in RequestPaths, now \in Timestamps :
    /\ calls < MaxLog
    /\ Called("checkFileWrite", filePath,
              checkFilesystem(perms, entries, now, "write", filePath, FILESYSTEM_WRITE))

CheckFileDelete ==
  \E filePath \in RequestPaths, now \in Timestamps :
    /\ calls < MaxLog
    /\ Called("checkFileDelete", filePath,
              checkFilesystem(perms, entries, now, "delete", filePath, FILESYSTEM_DELETE))

CheckNetworkClient ==
  \E host \in RequestHosts, now \in Timestamps :
    /\ calls < MaxLog
    /\ Called("checkNetworkClient", host,
              checkNetworkClient(perms, entries, now, host))

CheckNetworkServer ==
  \E port \in RequestPorts, now \in Timestamps :
    /\ calls < MaxLog
    /\ Called("checkNetworkServer", port,
              checkNetworkServer(perms, entries, now, port))

CheckEnvRead ==
  \E name \in RequestNames, now \in Timestamps :
    /\ calls < MaxLog
    /\ Called("checkEnvRead", name,
              checkEnvRead(perms, entries, now, name))

CheckExec ==
  \E command \in RequestCommands, now \in Timestamps :
    /\ calls < MaxLog
    /\ Called("checkExec", command,
              checkExec(perms, entries, now, command))

\* AuditLog.clear
Clear ==
  /\ box = "instance"
  /\ entries' = clear(entries)
  /\ calls' = 0
  /\ last' = [op |-> "clear"]
  /\ held' = [held EXCEPT !.shared = FALSE]
  /\ UNCHANGED <<manifest, overrides, perms, trace, launchCommand,
               processEnv, child, killed, signals, spawned, box>>

\* AuditLog.all, the caller keeping the returned array
All ==
  /\ box = "instance"
  /\ held' = [from |-> "all", mutated |-> FALSE] @@ all(entries)
  /\ last' = [op |-> "all"]
  /\ UNCHANGED <<manifest, overrides, perms, entries, calls, trace,
                 launchCommand, processEnv, child, killed, signals, spawned, box>>

\* AuditLog.denied, the caller keeping the returned array
Denied ==
  /\ box = "instance"
  /\ held' = [from |-> "denied", mutated |-> FALSE] @@ denied(entries)
  /\ last' = [op |-> "denied"]
  /\ UNCHANGED <<manifest, overrides, perms, entries, calls, trace,
                 launchCommand, processEnv, child, killed, signals, spawned, box>>

\* an entry made up by a caller
ForgedEntry ==
  [ timestamp  |-> "1970-01-01T00:00:00.000Z",
    permission |-> SYSTEM_EXEC,
    resource   |-> "forged",
    decision   |-> "allow",
    detail     |-> undefined ]

\* the caller removes the last element of the array it holds, or adds an
\* element to it (once per array); the log's array changes with it only if
\* it is the same array object
MutateSnapshot ==
  /\ held.from # "none"
  /\ ~held.mutated
  /\ \E v \in { SubSeq(held.value, 1, Len(held.value) - 1),
                 Append(held.value, ForgedEntry) } :
       /\ held' = [held EXCEPT !.value = v, !.mutated = TRUE]
       /\ entries' = IF held.shared THEN v ELSE entries
  /\ last' = [op |-> "mutate"]
  /\ UNCHANGED <<manifest, overrides, perms, calls, trace,
                 launchCommand, processEnv, child, killed, signals, spawned, box>>

\* the logical callers sharing one PermissionChecker
Callers == { "callerA", "callerB" }

\* one call of a check method by caller c with result r; the method is
\* synchronous, so the call runs to completion before another caller runs
CalledBy(c, op, arg, r) ==
  /\ box = "instance"
  /\ entries' = r.log
  /\ calls' = calls + 1
  /\ last' = [op |-> op, arg |-> arg, ret |-> r.ret]
  /\ trace' = Append(trace, [caller |-> c, op |-> op, arg |-> arg, ret |-> r.ret])
  /\ held' = heldAfterPush(r.log)
  /\ UNCHANGED <<manifest, overrides, perms, launchCommand,
               processEnv, child, killed, signals, spawned, box>>

CallerCheckFileRead ==
  \E c \in Callers, filePath \in RequestPaths, now \in Timestamps :
    /\ calls < MaxLog
    /\ CalledBy(c, "checkFileRead", filePath,
                checkFilesystem(perms, entries, now, "read", filePath, FILESYSTEM_READ))

CallerCheckNetworkClient ==
  \E c \in Callers, host \in RequestHosts, now \in Timestamps :
    /\ calls < MaxLog
    /\ CalledBy(c, "checkNetworkClient", host,
                checkNetworkClient(perms, entries, now, host))

Check ==
  \/ CheckFileRead
  \/ CheckFileWrite
  \/ CheckFileDelete
  \/ CheckNetworkClient
  \/ CheckNetworkServer
  \/ CheckEnvRead
  \/ CheckExec

Next ==
  \/ Check
  \/ Clear

Spec == Init /\ [][Next]_vars

\* before anything is created: a manifest, overrides, a command and an
\* ambient environment are at hand
InitLaunch ==
  /\ manifest \in Manifests
  /\ overrides \in OverrideChoices
  /\ launchCommand \in Commands
  /\ processEnv \in AmbientEnvs
  /\ perms = EmptyObject
  /\ entries = <<>>
  /\ calls = 0
  /\ last = [op |-> "none"]
  /\ held = NoSnapshot
  /\ trace = <<>>
  /\ child = "none"
  /\ killed = FALSE
  /\ signals = 0
  /\ spawned = EmptyObject
  /\ box = "none"

\* createAgentBox(options)
CreateAgentBox ==
  /\ box = "none"
  /\ \E cwd \in CwdOptions, outcome \in SpawnOutcomes :
       LET r == createAgentBox([ manifest  |-> manifest,
                                 overrides |-> overrides,
                                 command   |-> launchCommand ] @@ cwd,
                               processEnv, outcome)
       IN  IF r.threw
           THEN /\ box' = "threw"
                /\ last' = [op |-> "createAgentBox", threw |-> TRUE, error |-> r.error]
                /\ UNCHANGED <<perms, child, spawned>>
           ELSE /\ box' = "instance"
                /\ last' = [ op    |-> "createAgentBox",
                             threw |-> FALSE,
                             ret   |-> [ sandbox |-> r.sandbox.permissions,
                                         checker |-> r.checker.perms,
                                         effectivePermissions |->
                                           r.effectivePermissions ] ]
                /\ perms' = r.effectivePermissions
                /\ child' = r.sandbox.process.state
                /\ spawned' = spawnCall(r.sandbox.process)
  /\ UNCHANGED <<manifest, overrides, entries, calls, held, trace,
                 launchCommand, processEnv, killed, signals>>

\* launchSandbox(options) called directly with an already resolved policy
LaunchSandbox ==
  /\ box = "none"
  /\ \E cwd \in CwdOptions, outcome \in SpawnOutcomes :
       LET permissions == resolvePolicy(manifest, overrides)
           r == launchSandbox([ command     |-> launchCommand,
                                permissions |-> permissions ] @@ cwd,
                              processEnv, outcome)
       IN  IF r.threw
           THEN /\ box' = "threw"
                /\ last' = [op |-> "launchSandbox", threw |-> TRUE, error |-> r.error]
                /\ UNCHANGED <<perms, child, spawned>>
           ELSE /\ box' = "handle"
                /\ last' = [ op    |-> "launchSandbox",
                             threw |-> FALSE,
                             ret   |-> [ sandbox |-> r.permissions ] ]
                /\ perms' = r.permissions
                /\ child' = r.process.state
                /\ spawned' = spawnCall(r.process)
  /\ UNCHANGED <<manifest, overrides, entries, calls, held, trace,
                 launchCommand, processEnv, killed, signals>>

NextLaunch ==
  \/ CreateAgentBox
  \/ LaunchSandbox

SpecLaunch == InitLaunch /\ [][NextLaunch]_vars

\* the checker of the audit tests: reads under /data, one allowed host
AuditManifest ==
  [ description |-> "server",
    permissions |-> <<FILESYSTEM_READ, NETWORK_CLIENT>> ]

AuditOverrides ==
  [ readPaths |-> <<"/data">>, allowedHosts |-> <<"api.example.com">> ]

InitAudit ==
  /\ manifest = AuditManifest
  /\ overrides = AuditOverrides
  /\ perms = resolvePolicy(manifest, overrides)
  /\ entries = <<>>
  /\ calls = 0
  /\ last = [op |-> "new"]
  /\ held = NoSnapshot
  /\ trace = <<>>
  /\ launchCommand = <<"node", "server.js">>
  /\ processEnv = HostEnv
  /\ child = "running"
  /\ killed = FALSE
  /\ signals = 0
  /\ spawned = spawnCall(Created("started").sandbox.process)
  /\ box = "instance"

\* the audit log under checks, clear, all, denied and callers that change
\* the arrays they were given
NextAudit ==
  \/ CheckFileRead
  \/ CheckNetworkClient
  \/ Clear
  \/ All
  \/ Denied
  \/ MutateSnapshot

SpecAudit == InitAudit /\ [][NextAudit]_vars

\* several logical callers checking against one PermissionChecker
NextCallers ==
  \/ CallerCheckFileRead
  \/ CallerCheckNetworkClient

SpecCallers == InitAudit /\ [][NextCallers]_vars

\* the ChildProcess as kill and stop see it
TheChild == [ state |-> child, killed |-> killed, signals |-> signals ]

\* sandbox.stop() called by caller c on the handle
SandboxStop ==
  /\ box \in { "handle", "instance" }
  /\ \E c \in Callers :
       LET r == stop(TheChild)
       IN  /\ child' = r.state
           /\ killed' = r.killed
           /\ signals' = r.signals
           /\ last' = [op |-> "sandbox.stop", caller |-> c, threw |-> r.threw]
  /\ UNCHANGED <<manifest, overrides, perms, entries, calls, held, trace,
                 launchCommand, processEnv, spawned, box>>

\* box.stop() called by caller c on the instance
BoxStop ==
  /\ box = "instance"
  /\ \E c \in Callers :
       LET r == boxStop([ sandbox |-> TheChild, audit |-> entries ])
       IN  /\ child' = r.sandbox.state
           /\ killed' = r.sandbox.killed
           /\ signals' = r.sandbox.signals
           /\ entries' = r.audit
           /\ last' = [op |-> "box.stop", caller |-> c, threw |-> r.sandbox.threw]
  /\ UNCHANGED <<manifest, overrides, perms, calls, held, trace,
                 launchCommand, processEnv, spawned, box>>

\* the server process ends, by itself or after the signal
ProcessExit ==
  /\ box \in { "handle", "instance" }
  /\ child = "running"
  /\ child' = "exited"
  /\ last' = [op |-> "exit"]
  /\ UNCHANGED <<manifest, overrides, perms, entries, calls, held, trace,
                 launchCommand, processEnv, killed, signals, spawned, box>>

\* box.audit.toJSON()
ToJSON ==
  /\ box = "instance"
  /\ last' = [op |-> "toJSON", ret |-> toJSON(entries)]
  /\ UNCHANGED <<manifest, overrides, perms, entries, calls, held, trace,
                 launchCommand, processEnv, child, killed, signals, spawned, box>>

\* the README's box: a manifest, overrides and a command, nothing created
InitBox ==
  /\ manifest = AuditManifest
  /\ overrides = AuditOverrides
  /\ launchCommand = <<"node", "server.js">>
  /\ processEnv = HostEnv
  /\ perms = EmptyObject
  /\ entries = <<>>
  /\ calls = 0
  /\ last = [op |-> "none"]
  /\ held = NoSnapshot
  /\ trace = <<>>
  /\ child = "none"
  /\ killed = FALSE
  /\ signals = 0
  /\ spawned = EmptyObject
  /\ box = "none"

\* the life of one box: creation, host checks, audit operations, stops by
\* several callers, and the end of the process
NextBox ==
  \/ CreateAgentBox
  \/ CheckNetworkClient
  \/ Clear
  \/ All
  \/ Denied
  \/ ToJSON
  \/ SandboxStop
  \/ BoxStop
  \/ ProcessExit

SpecBox == InitBox /\ [][NextBox]_vars

\* description texts: empty, blank, padded, plain
DescriptionTexts ==
  { <<>>, <<" ", "\t">>, <<" ", "a", "\n">>, <<"s", "r", "v">> }

\* values found under description: the texts and a number
DescriptionValues ==
  { [ t |-> "string", v |-> d ] : d \in DescriptionTexts }
    \cup { [ t |-> "number", v |-> <<>> ] }

\* permission texts: two of the vocabulary and one outside it
PermissionTexts ==
  { FILESYSTEM_READ, NETWORK_CLIENT, "mcp.ac.filesystem.execute" }

\* elements found in permissions: the texts and a number
PermissionElements ==
  { [ t |-> "string", v |-> q ] : q \in PermissionTexts }
    \cup { [ t |-> "number", v |-> "42" ] }

\* the lists of at most MaxPerms elements of S
ListsOf(S) == UNION { [ 1..n -> S ] : n \in 0..MaxPerms }

\* values found under permissions: arrays and a bare string
PermissionsValues ==
  { [ t |-> "array", v |-> a ] : a \in ListsOf(PermissionElements) }
    \cup { [ t |-> "string", v |-> <<>> ] }

\* the own properties of an object handed to validateManifest
ManifestFields ==
  { d @@ q :
      d \in { EmptyObject } \cup { [ description |-> x ] : x \in DescriptionValues },
      q \in { EmptyObject } \cup { [ permissions |-> y ] : y \in PermissionsValues } }

\* the values handed to validateManifest: null, a string, an array, objects
ManifestData ==
  { [ t |-> "null", fields |-> EmptyObject ],
    [ t |-> "string", fields |-> EmptyObject ],
    [ t |-> "array", fields |-> EmptyObject ] }
    \cup { [ t |-> "object", fields |-> f ] : f \in ManifestFields }

\* validateManifest(data)
ValidateManifest ==
  /\ \E data \in ManifestData :
       last' = [op |-> "validateManifest", arg |-> data, ret |-> validateManifest(data)]
  /\ UNCHANGED <<manifest, overrides, perms, entries, calls, held, trace,
                 launchCommand, processEnv, child, killed, signals, spawned, box>>

\* createManifest(description, permissions)
CreateManifest ==
  /\ \E description \in DescriptionTexts, permissions \in ListsOf(PermissionTexts) :
       last' = [ op  |-> "createManifest",
                 arg |-> [description |-> description, permissions |-> permissions],
                 ret |-> createManifest(description, permissions) ]
  /\ UNCHANGED <<manifest, overrides, perms, entries, calls, held, trace,
                 launchCommand, processEnv, child, killed, signals, spawned, box>>

NextManifest ==
  \/ ValidateManifest
  \/ CreateManifest

\* manifests validated and created before any box exists
SpecManifest == InitBox /\ [][NextManifest]_vars

\* ------------------------------------------------------------------------
\* Properties
\* ------------------------------------------------------------------------

\* the names of the seven check methods
FsOps == { "checkFileRead", "checkFileWrite", "checkFileDelete" }

CheckOps ==
  FsOps \cup { "checkNetworkClient", "checkNetworkServer", "checkEnvRead", "checkExec" }

\* the permission a check method checks
PermissionOf(op) ==
  IF op = "checkFileRead" THEN FILESYSTEM_READ
  ELSE IF op = "checkFileWrite" THEN FILESYSTEM_WRITE
  ELSE IF op = "checkFileDelete" THEN FILESYSTEM_DELETE
  ELSE IF op = "checkNetworkClient" THEN NETWORK_CLIENT
  ELSE IF op = "checkNetworkServer" THEN NETWORK_SERVER
  ELSE IF op = "checkEnvRead" THEN SYSTEM_ENV_READ
  ELSE SYSTEM_EXEC

\* the category struct of EffectivePermissions a check method reads
CategoryOf(op) ==
  IF op \in FsOps THEN "filesystem"
  ELSE IF op \in {"checkNetworkClient", "checkNetworkServer"} THEN "network"
  ELSE "system"

\* the list inside the category struct a check method reads
FieldOf(op) ==
  IF op = "checkFileRead" THEN "read"
  ELSE IF op = "checkFileWrite" THEN "write"
  ELSE IF op = "checkFileDelete" THEN "delete"
  ELSE IF op = "checkNetworkClient" THEN "allowedHosts"
  ELSE IF op = "checkNetworkServer" THEN "listenPorts"
  ELSE IF op = "checkEnvRead" THEN "envVars"
  ELSE "allowedCommands"

\* the permissions the manifest declares
Declared == SetOf(manifest.permissions)

\* the canonical absolute form of path p equals the canonical form of root
\* r or lies underneath it: r's segments are a prefix of p's
Under(p, r) ==
  LET ps == resolveSegments(Chars(p))
      rs == resolveSegments(Chars(r))
  IN  Len(rs) <= Len(ps) /\ SubSeq(ps, 1, Len(rs)) = rs

\* some root of the list contains p
UnderSome(p, roots) == \E i \in 1..Len(roots) : Under(p, roots[i])

\* some segment of the path string p is ".."
HasParentSegment(p) == \E i \in 1..Len(Split(Chars(p))) : Split(Chars(p))[i] = <<".", ".">>

\* C1: a filesystem check returns true only if the canonical form of the
\* requested path equals or lies underneath the canonical form of a root in
\* the checked action's own list.
C1_NoFalseAllow ==
  (last.op \in FsOps /\ last.ret)
    => /\ HasList(perms, "filesystem", FieldOf(last.op))
       /\ UnderSome(last.arg, perms.filesystem[FieldOf(last.op)])

\* C1 witness: a request with a ".." segment was allowed, its canonical form
\* being inside a root of the action's list.
C1_Witness ==
  /\ last.op \in FsOps
  /\ HasParentSegment(last.arg)
  /\ last.ret

\* C2: with the action's list present, a filesystem check returns true if
\* and only if the canonical form of the requested path equals a root of
\* the list or is a descendant of it, whatever the segment names are.
C2_ExactContainment ==
  (last.op \in FsOps /\ HasList(perms, "filesystem", FieldOf(last.op)))
    => (last.ret <=> UnderSome(last.arg, perms.filesystem[FieldOf(last.op)]))

\* C3: the check of a permission the manifest does not declare returns
\* false for every resource, whatever the overrides supply.
C3_OverridesNeverGrant ==
  (last.op \in CheckOps /\ PermissionOf(last.op) \notin Declared) => ~last.ret

\* C3 witness: read is not declared, write (same category) is, the
\* overrides supply a read list containing the requested path, and the read
\* check was made.
C3_Witness ==
  /\ last.op = "checkFileRead"
  /\ FILESYSTEM_READ \notin Declared
  /\ FILESYSTEM_WRITE \in Declared
  /\ Has(overrides, "readPaths")
  /\ UnderSome(last.arg, overrides.readPaths)
  /\ ~last.ret

\* C4: a check whose list is absent from EffectivePermissions (category
\* struct missing, or the field missing in a present struct) returns false.
C4_AbsentMeansDeny ==
  (last.op \in CheckOps /\ ~HasList(perms, CategoryOf(last.op), FieldOf(last.op)))
    => ~last.ret

\* C4 witness: the filesystem struct is present without a read list, its
\* write list contains the requested path, and the read check was made.
C4_Witness ==
  /\ last.op = "checkFileRead"
  /\ Has(perms, "filesystem")
  /\ ~Has(perms.filesystem, "read")
  /\ Has(perms.filesystem, "write")
  /\ UnderSome(last.arg, perms.filesystem.write)
  /\ ~last.ret

\* C5: checkExec is false when allowedCommands is absent, true for every
\* command when it is present and empty, and true exactly for the members
\* when it is present and non-empty.
C5_ExecCheck ==
  (last.op = "checkExec")
    => (last.ret <=>
          /\ HasList(perms, "system", "allowedCommands")
          /\ \/ perms.system.allowedCommands = <<>>
             \/ last.arg \in SetOf(perms.system.allowedCommands))

\* C5 witness: allowedCommands is present and empty and a command was allowed.
C5_Witness ==
  /\ last.op = "checkExec"
  /\ HasList(perms, "system", "allowedCommands")
  /\ perms.system.allowedCommands = <<>>
  /\ last.ret

\* C6: with exec declared and no allowedCommands override, checkExec is
\* false for every command.
C6_ExecDefaultsClosed ==
  (last.op = "checkExec" /\ SYSTEM_EXEC \in Declared /\ ~Has(overrides, "allowedCommands"))
    => ~last.ret

\* C7: checkNetworkClient is false when allowedHosts is absent; otherwise
\* true iff the list holds "*" or the host exactly.
C7_NetworkClientCheck ==
  (last.op = "checkNetworkClient")
    => (last.ret <=>
          /\ HasList(perms, "network", "allowedHosts")
          /\ \/ "*" \in SetOf(perms.network.allowedHosts)
             \/ last.arg \in SetOf(perms.network.allowedHosts))

\* C7 witness: a host differing only in letter case from a listed host was
\* denied.
C7_Witness ==
  /\ last.op = "checkNetworkClient"
  /\ last.arg = "API.example.com"
  /\ HasList(perms, "network", "allowedHosts")
  /\ "api.example.com" \in SetOf(perms.network.allowedHosts)
  /\ ~last.ret

\* C8: checkNetworkServer is false when listenPorts is absent; otherwise
\* true iff the port is an element of the list.
C8_NetworkServerCheck ==
  (last.op = "checkNetworkServer")
    => (last.ret <=>
          /\ HasList(perms, "network", "listenPorts")
          /\ last.arg \in SetOf(perms.network.listenPorts))

\* C8 witness: server declared without override, so listenPorts is present
\* and empty, and a port was denied.
C8_Witness ==
  /\ last.op = "checkNetworkServer"
  /\ ~Has(overrides, "listenPorts")
  /\ HasList(perms, "network", "listenPorts")
  /\ perms.network.listenPorts = <<>>
  /\ ~last.ret

\* C9: checkEnvRead is false when envVars is absent; otherwise true iff the
\* name is an element of the list.
C9_EnvReadCheck ==
  (last.op = "checkEnvRead")
    => (last.ret <=>
          /\ HasList(perms, "system", "envVars")
          /\ last.arg \in SetOf(perms.system.envVars))

\* C9 witness: env-read declared without override, so envVars is present
\* and empty, and PATH was denied.
C9_Witness ==
  /\ last.op = "checkEnvRead"
  /\ last.arg = "PATH"
  /\ ~Has(overrides, "envVars")
  /\ HasList(perms, "system", "envVars")
  /\ perms.system.envVars = <<>>
  /\ ~last.ret

\* C10: every call of a check method (a step that counts one more call)
\* returns a boolean and makes the audit log exactly one entry longer.
C10_OneEntryPerCheck ==
  [][ calls' = calls + 1
        => /\ last'.op \in CheckOps
           /\ last'.ret \in BOOLEAN
           /\ Len(entries') = Len(entries) + 1 ]_vars

\* C10 witness: two identical calls, one allowed, left two equal entries.
C10_Witness ==
  /\ calls = 2
  /\ Len(entries) = 2
  /\ entries[1] = entries[2]
  /\ last.op \in CheckOps
  /\ last.ret

\* the text recorded as the resource of a call
ResourceOf(op, arg) == IF op = "checkNetworkServer" THEN ToString(arg) ELSE arg

\* C11: a check appends its entry at the end: the log before the call is a
\* prefix of the log after it, every earlier entry keeping its index, and
\* all() then ends with the entry of that call.
C11_AppendOrder ==
  [][ calls' = calls + 1
        => /\ SubSeq(all(entries').value, 1, Len(entries)) = all(entries).value
           /\ all(entries').value[Len(entries) + 1].permission = PermissionOf(last'.op)
           /\ all(entries').value[Len(entries) + 1].resource
                = ResourceOf(last'.op, last'.arg) ]_vars

\* C11 witness: two different checks were made and the log holds the entry
\* of the first at index 1 and the entry of the second, the last call, at 2.
C11_Witness ==
  /\ calls = 2
  /\ Len(entries) = 2
  /\ entries[1] # entries[2]
  /\ entries[2].permission = PermissionOf(last.op)
  /\ entries[2].resource = ResourceOf(last.op, last.arg)

\* the indices of the deny entries of a log
DenyIndices(log) == { i \in 1..Len(log) : log[i].decision = "deny" }

\* C12: in every state denied() is the subsequence of all() made of the
\* deny entries in the same order (its k-th element is the k-th deny entry
\* of all()), and the denied and the allow entries add up to all().length.
C12_DeniedSubsequence ==
  LET a == all(entries).value
      d == denied(entries).value
  IN  /\ Len(d) = Cardinality(DenyIndices(a))
      /\ \A k \in 1..Len(d) :
           \E i \in DenyIndices(a) :
             /\ Cardinality({ j \in DenyIndices(a) : j < i }) = k - 1
             /\ d[k] = a[i]
      /\ Len(d) + Cardinality({ i \in 1..Len(a) : a[i].decision = "allow" }) = Len(a)
      /\ (last.op = "denied" => held.value = d)

\* C12 witness: denied() was called on a log of one allow entry followed by
\* one deny entry and returned the deny entry alone.
C12_Witness ==
  /\ last.op = "denied"
  /\ Len(entries) = 2
  /\ entries[1].decision = "allow"
  /\ entries[2].decision = "deny"
  /\ held.value = << entries[2] >>

\* the record of an invoked check and the audit entry agree
Matches(e, t) ==
  /\ DOMAIN e = { "timestamp", "permission", "resource", "decision", "detail" }
  /\ e.permission = PermissionOf(t.op)
  /\ e.resource = ResourceOf(t.op, t.arg)
  /\ e.decision = decisionOf(t.ret)

\* C13: whatever the interleaving of the callers, the log holds exactly one
\* intact entry per invoked check, in the order the checks ran.
C13_NoLostEntry ==
  /\ Len(entries) = Len(trace)
  /\ \A i \in 1..Len(trace) : Matches(entries[i], trace[i])

\* C13 witness: two callers made the same check one after the other.
C13_Witness ==
  /\ Len(trace) = 2
  /\ trace[1].caller # trace[2].caller
  /\ trace[1].op = trace[2].op
  /\ trace[1].arg = trace[2].arg

\* C14: an array returned by all() or denied() is not changed by a later
\* record() or clear(), and a caller changing that array does not change
\* the log, so not what later all() and denied() calls return.
C14_Snapshots ==
  [][ /\ (last'.op \in CheckOps \cup {"clear"}) => held'.value = held.value
      /\ (last'.op = "mutate")
           => /\ all(entries').value = all(entries).value
              /\ denied(entries').value = denied(entries).value ]_vars

\* C14 witness: an array returned by all() was changed by its caller and a
\* check was recorded afterwards.
C14_Witness ==
  /\ held.from = "all"
  /\ held.mutated
  /\ last.op \in CheckOps
  /\ Len(entries) = 2

\* C15: clear() empties the log from any state: right after it all() and
\* denied() are empty, and clearing a cleared log changes nothing; the log
\* stays usable: after the k-th check that follows a clear (or the
\* construction) all() has exactly k entries, the newest made by that check
C15_ClearThenUsable ==
  /\ (last.op = "clear")
       => /\ all(entries).value = <<>>
          /\ denied(entries).value = <<>>
  /\ clear(clear(entries)) = clear(entries)
  /\ clear(entries) = <<>>
  /\ (last.op \in CheckOps \cup {"clear"})
       => Len(all(entries).value) = calls
  /\ (last.op \in CheckOps)
       => /\ entries # <<>>
          /\ entries[Len(entries)].permission = PermissionOf(last.op)
          /\ entries[Len(entries)].resource = ResourceOf(last.op, last.arg)

\* a first check made after a clear that emptied a log of two entries (the
\* caller still holds the two-entry array all() gave it before the clear)
C15_Witness ==
  /\ last.op \in CheckOps
  /\ calls = 1
  /\ Len(entries) = 1
  /\ held.from = "all"
  /\ ~held.mutated
  /\ Len(held.value) = 2

\* the permissions of a category
PermissionsOf(category) ==
  { PermissionOf(op) : op \in { o \in CheckOps : CategoryOf(o) = category } }

\* the fields of a category struct
FieldsOf(category) ==
  { FieldOf(op) : op \in { o \in CheckOps : CategoryOf(o) = category } }

\* C16: in the resolved permissions a category struct is present iff a
\* permission of that category is declared, a field is present iff its own
\* permission is declared, nothing else is present, and for the empty
\* permission set there is no struct at all
C16_ResolverStructure ==
  /\ DOMAIN perms \subseteq { "filesystem", "network", "system" }
  /\ \A category \in { "filesystem", "network", "system" } :
       /\ Has(perms, category) <=> (PermissionsOf(category) \cap Declared # {})
       /\ Has(perms, category) => DOMAIN perms[category] \subseteq FieldsOf(category)
  /\ \A op \in CheckOps :
       HasList(perms, CategoryOf(op), FieldOf(op)) <=> (PermissionOf(op) \in Declared)
  /\ (Declared = {}) => perms = EmptyObject

\* only the client permission is declared: one struct with one field
C16_Witness ==
  /\ Declared = { NETWORK_CLIENT }
  /\ DOMAIN perms = { "network" }
  /\ DOMAIN perms.network = { "allowedHosts" }

\* C17: a declared read (write) permission resolves to the readPaths
\* (writePaths) override verbatim when one is supplied, the empty list
\* included, and to [current working directory] when none is supplied
C17_ReadWriteResolution ==
  /\ (FILESYSTEM_READ \in Declared)
       => /\ HasList(perms, "filesystem", "read")
          /\ perms.filesystem.read =
               IF Has(overrides, "readPaths") THEN overrides.readPaths
               ELSE <<process_cwd>>
  /\ (FILESYSTEM_WRITE \in Declared)
       => /\ HasList(perms, "filesystem", "write")
          /\ perms.filesystem.write =
               IF Has(overrides, "writePaths") THEN overrides.writePaths
               ELSE <<process_cwd>>

\* read is declared and the supplied override is the empty list
C17_Witness ==
  /\ FILESYSTEM_READ \in Declared
  /\ Has(overrides, "readPaths")
  /\ overrides.readPaths = <<>>
  /\ perms.filesystem.read = <<>>

C19_NetworkSystemResolution ==
  /\ (NETWORK_CLIENT \in Declared)
       => /\ HasList(perms, "network", "allowedHosts")
          /\ perms.network.allowedHosts =
               IF Has(overrides, "allowedHosts") THEN overrides.allowedHosts
               ELSE <<"*">>
  /\ (NETWORK_SERVER \in Declared)
       => /\ HasList(perms, "network", "listenPorts")
          /\ perms.network.listenPorts =
               IF Has(overrides, "listenPorts") THEN overrides.listenPorts
               ELSE <<>>
  /\ (SYSTEM_ENV_READ \in Declared)
       => /\ HasList(perms, "system", "envVars")
          /\ perms.system.envVars =
               IF Has(overrides, "envVars") THEN overrides.envVars
               ELSE <<>>
  /\ (SYSTEM_EXEC \in Declared)
       => /\ HasList(perms, "system", "allowedCommands")
          /\ perms.system.allowedCommands =
               IF Has(overrides, "allowedCommands") THEN overrides.allowedCommands
               ELSE <<>>
  /\ (/\ last.op = "checkNetworkClient"
      /\ NETWORK_CLIENT \in Declared
      /\ ~Has(overrides, "allowedHosts"))
       => last.ret

\* a host checked under the default of a declared client permission
C19_Witness ==
  /\ last.op = "checkNetworkClient"
  /\ NETWORK_CLIENT \in Declared
  /\ ~Has(overrides, "allowedHosts")
  /\ perms.network.allowedHosts = <<"*">>
  /\ last.ret

\* C20: launchSandbox and createAgentBox called with the empty command
\* throw; no spawn call is made, no process exists, and neither a sandbox
\* handle nor a box instance is returned
C20_EmptyCommandRejected ==
  (last.op \in { "launchSandbox", "createAgentBox" } /\ launchCommand = <<>>)
    => /\ last.threw
       /\ box = "threw"
       /\ child = "none"
       /\ spawned = EmptyObject

\* createAgentBox was called with the empty command
C20_Witness ==
  /\ last.op = "createAgentBox"
  /\ launchCommand = <<>>
  /\ box = "threw"

\* C21: a launch the host cannot carry out is reported by the launch call:
\* after launchSandbox or createAgentBox with a non-empty command, if the
\* process is not running then the call threw and returned neither a handle
\* nor an instance
C21_LaunchFailureReported ==
  (/\ last.op \in { "launchSandbox", "createAgentBox" }
   /\ launchCommand # <<>>
   /\ child # "running")
    => /\ last.threw
       /\ box = "threw"

\* the names buildEnvironment may pass on under permissions p
AllowedNames(p) ==
  ALWAYS_ALLOWED \cup
    SetOf(IF HasList(p, "system", "envVars") THEN p.system.envVars ELSE <<>>)

\* two environments set the same ones of the names, to the same values
AgreeOn(e1, e2, names) ==
  \A n \in names :
    /\ (n \in DOMAIN e1) <=> (n \in DOMAIN e2)
    /\ (n \in DOMAIN e1) => e1[n] = e2[n]

\* C22: the names in the child's environment are among PATH, HOME, USER,
\* LANG, TERM, NODE_ENV and permissions.system.envVars; a launch under the
\* same permissions from any ambient environment that agrees with this one
\* on those names gives the child the same environment
C22_EnvironmentFiltered ==
  (spawned # EmptyObject)
    => /\ DOMAIN spawned.env \subseteq AllowedNames(perms)
       /\ \A other \in AmbientEnvs :
            AgreeOn(processEnv, other, AllowedNames(perms))
              => buildEnvironment(perms, other) = spawned.env

\* a child launched with API_KEY granted from an environment that also
\* holds a secret, which has a twin differing only in other variables
C22_Witness ==
  /\ spawned # EmptyObject
  /\ "AWS_SECRET_ACCESS_KEY" \in DOMAIN processEnv
  /\ "AWS_SECRET_ACCESS_KEY" \notin DOMAIN spawned.env
  /\ "API_KEY" \in DOMAIN spawned.env
  /\ \E other \in AmbientEnvs :
       /\ other # processEnv
       /\ AgreeOn(processEnv, other, AllowedNames(perms))

\* C23: the child's PATH is /usr/local/bin:/usr/bin:/bin when
\* permissions.system.allowedCommands is absent, whatever the ambient PATH
\* is and also when there is none; when allowedCommands is present, empty
\* or not, the child's PATH is the ambient PATH (none if there is none)
C23_SearchPath ==
  (spawned # EmptyObject)
    => IF ~HasList(perms, "system", "allowedCommands")
       THEN /\ Has(spawned.env, "PATH")
            /\ spawned.env.PATH = RestrictedPath
       ELSE /\ Has(spawned.env, "PATH") <=> Has(processEnv, "PATH")
            /\ Has(spawned.env, "PATH") => spawned.env.PATH = processEnv.PATH

\* a child launched with allowedCommands present but empty keeps the
\* ambient PATH
C23_Witness ==
  /\ spawned # EmptyObject
  /\ HasList(perms, "system", "allowedCommands")
  /\ perms.system.allowedCommands = <<>>
  /\ Has(processEnv, "PATH")
  /\ Has(spawned.env, "PATH")
  /\ spawned.env.PATH = processEnv.PATH
  /\ spawned.env.PATH # RestrictedPath

\* the two stop operations
StopOps == { "sandbox.stop", "box.stop" }

C25_StopTouchesOnlySandbox ==
  [][ /\ (last'.op \in StopOps \cup { "exit" })
        => /\ entries' = entries
           /\ perms' = perms
           /\ \A host \in RequestHosts, now \in Timestamps :
                checkNetworkClient(perms', entries', now, host).ret
                  = checkNetworkClient(perms, entries, now, host).ret
      /\ (last'.op = "checkNetworkClient")
        => /\ last'.ret <=> /\ HasList(perms, "network", "allowedHosts")
                            /\ \/ includes(perms.network.allowedHosts, "*")
                               \/ includes(perms.network.allowedHosts, last'.arg)
           /\ Len(entries') = Len(entries) + 1
           /\ SubSeq(entries', 1, Len(entries)) = entries
           /\ entries'[Len(entries')].resource = last'.arg
           /\ entries'[Len(entries')].decision = decisionOf(last'.ret) ]_vars

\* an allowed check made after box.stop() on a box whose process has
\* ended, appended behind an entry made while it ran
C25_Witness ==
  /\ last.op = "checkNetworkClient"
  /\ last.ret
  /\ killed
  /\ child = "exited"
  /\ Len(entries) = 2

\* the data is a manifest: an object with a description string that has a
\* character other than whitespace and a permissions array of strings of
\* the vocabulary, no two of them equal
WellFormed(data) ==
  /\ data.t = "object"
  /\ Has(data.fields, "description")
  /\ data.fields.description.t = "string"
  /\ \E i \in 1..Len(data.fields.description.v) :
       data.fields.description.v[i] \notin Whitespace
  /\ Has(data.fields, "permissions")
  /\ data.fields.permissions.t = "array"
  /\ LET arr == data.fields.permissions.v
     IN  /\ \A i \in 1..Len(arr) :
              /\ arr[i].t = "string"
              /\ arr[i].v \in SetOf(ALL_PERMISSIONS)
         /\ \A i, j \in 1..Len(arr) : (i # j) => arr[i] # arr[j]

\* C26: validateManifest(data) is valid iff data is a non-null, non-array
\* object with a non-blank description string and a permissions array of
\* distinct strings of the vocabulary, and valid iff its errors are empty
C26_ValidateManifest ==
  (last.op = "validateManifest")
    => /\ last.ret.valid <=> WellFormed(last.arg)
       /\ last.ret.valid <=> (last.ret.errors = <<>>)

\* a manifest rejected only because its description is blank
C26_Witness ==
  /\ last.op = "validateManifest"
  /\ ~last.ret.valid
  /\ Len(last.ret.errors) = 1
  /\ last.ret.errors[1].path = "$.description"
  /\ Has(last.arg.fields, "description")
  /\ last.arg.fields.description = [ t |-> "string", v |-> <<" ", "\t">> ]
  /\ Has(last.arg.fields, "permissions")
  /\ last.arg.fields.permissions.t = "array"
  /\ Len(last.arg.fields.permissions.v) = 2

\* every text of the list is a permission of the vocabulary
AllKnown(permissions) ==
  \A i \in 1..Len(permissions) : permissions[i] \in SetOf(ALL_PERMISSIONS)

\* the position of the first occurrence of x in arr
FirstIndex(arr, x) ==
  CHOOSE i \in 1..Len(arr) :
    arr[i] = x /\ \A j \in 1..(i - 1) : arr[j] # x

\* C27: createManifest throws or returns a manifest that validateManifest
\* accepts; a blank description makes it throw; known permissions with a
\* non-blank description never throw, duplicates included, and the
\* returned list holds each given permission once, in the order of the
\* first occurrences
C27_CreateManifest ==
  (last.op = "createManifest")
    => LET description == last.arg.description
           permissions == last.arg.permissions
           blank == \A i \in 1..Len(description) : description[i] \in Whitespace
       IN  /\ ~last.ret.threw => validateManifest(last.ret.manifest).valid
           /\ blank => last.ret.threw
           /\ (~blank /\ AllKnown(permissions)) => ~last.ret.threw
           /\ ~last.ret.threw =>
                LET out == [ i \in 1..Len(last.ret.manifest.fields.permissions.v) |->
                               last.ret.manifest.fields.permissions.v[i].v ]
                IN  /\ SetOf(out) = SetOf(permissions)
                    /\ \A i, j \in 1..Len(out) :
                         (i < j) => /\ out[i] # out[j]
                                    /\ FirstIndex(permissions, out[i])
                                         < FirstIndex(permissions, out[j])
                    /\ last.ret.manifest.fields.description.v = description

\* a list with a repeated permission came back with one occurrence
C27_Witness ==
  /\ last.op = "createManifest"
  /\ ~last.ret.threw
  /\ Len(last.arg.permissions) = 2
  /\ last.arg.permissions[1] = last.arg.permissions[2]
  /\ Len(last.ret.manifest.fields.permissions.v) = 1

\* C28: a check repeated at once, same method and same resource, returns
\* what the first call returned, whatever the first call wrote to the log,
\* and the log then ends with two entries of their own for the two calls
C28_CheckIdempotent ==
  [][ (/\ last.op \in CheckOps
       /\ last'.op = last.op
       /\ last'.arg = last.arg
       /\ calls' = calls + 1)
        => /\ last'.ret = last.ret
           /\ perms' = perms
           /\ Len(entries') = Len(entries) + 1
           /\ Len(entries) >= 1
           /\ SubSeq(entries', 1, Len(entries)) = entries
           /\ entries'[Len(entries')].permission = entries[Len(entries)].permission
           /\ entries'[Len(entries')].resource = entries[Len(entries)].resource
           /\ entries'[Len(entries')].decision = entries[Len(entries)].decision ]_vars

\* checkExec called twice in a row for one command, allowed both times
C28_Witness ==
  /\ last.op = "checkExec"
  /\ last.ret
  /\ calls = 2
  /\ Len(entries) = 2
  /\ entries[1].permission = SYSTEM_EXEC
  /\ entries[1].resource = entries[2].resource
  /\ entries[1].decision = "allow"
  /\ entries[2].decision = "allow"

\* C29: the newest entry after a check describes it: allow iff the call
\* returned true, deny iff it returned false, the permission of the method,
\* and the resource as passed in (the decimal text for a port)
C29_EntryDescribesCheck ==
  (last.op \in CheckOps)
    => /\ entries # <<>>
       /\ LET e == entries[Len(entries)]
          IN  /\ (e.decision = "allow") <=> last.ret
              /\ (e.decision = "deny") <=> ~last.ret
              /\ e.permission = PermissionOf(last.op)
              /\ e.resource = IF last.op = "checkNetworkServer"
                              THEN ToString(last.arg) ELSE last.arg

\* a denied port check recorded under the decimal text of the port
C29_Witness ==
  /\ last.op = "checkNetworkServer"
  /\ ~last.ret
  /\ last.arg = 22
  /\ entries[Len(entries)].resource = "22"
  /\ entries[Len(entries)].decision = "deny"
  /\ entries[Len(entries)].permission = NETWORK_SERVER

\* C30: once a box exists no operation on it (a check, clear, all, denied,
\* toJSON, a stop, the end of the process) changes the permissions; and
\* the permissions of the sandbox handle, of the checker and the exposed
\* effectivePermissions of a new box are all the policy resolved from its
\* manifest and overrides
C30_PermissionsImmutable ==
  [][ /\ (box = "instance") => (box' = "instance" /\ perms' = perms)
      /\ (last'.op = "createAgentBox" /\ ~last'.threw)
           => /\ box' = "instance"
              /\ perms' = resolvePolicy(manifest, overrides)
              /\ last'.ret.effectivePermissions = perms'
              /\ last'.ret.checker = perms'
              /\ last'.ret.sandbox = perms' ]_vars

\* a box that was checked against, stopped and then read by toJSON still
\* has the policy resolved at its creation
C30_Witness ==
  /\ box = "instance"
  /\ last.op = "toJSON"
  /\ killed
  /\ entries # <<>>
  /\ perms # EmptyObject
  /\ perms = resolvePolicy(manifest, overrides)

====
